---- MODULE Spec2Model ----
(***************************************************************************)
(* The change-proposal / approval subsystem of codemcp:                    *)
(*   codemcp/approval_state.py   the pending-change store, the session     *)
(*                               pointer files and the commit-prompt flag  *)
(*   codemcp/tools/write_file.py write_file_content and apply_write        *)
(*                                                                         *)
(* Conventions.  A Python str whose characters matter (a change id, the    *)
(* text of a pointer file, file content) is a tuple of one-character       *)
(* strings; a str that is only compared (a path, a chat id, a description) *)
(* is a TLA+ string.  An optional value is None == <<>> or Some(v) ==      *)
(* <<v>>.  A directory of files is a function from the names of the files  *)
(* that exist to their text.                                               *)
(***************************************************************************)
EXTENDS Integers, Sequences, FiniteSets, TLC

\* Number of uuid4 draws a run may make.
MaxIds == 2

None == <<>>
Some(v) == <<v>>

\* Server processes sharing PENDING_CHANGES_DIR; each imports its own copy of
\* the module globals pending_changes and commit_prompt_enabled.
Procs == {"p1", "p2"}

\* Chat (session) ids.
Sessions == {"sA", "sB"}

VARIABLES
    pending_changes,        \* per process: dict change_id -> change_info
    commit_prompt_enabled,  \* per process: bool
    change_files,           \* PENDING_CHANGES_DIR/<change_id>.json -> text
    id_files,               \* PENDING_CHANGES_DIR/current_<chat_id>.txt -> text
    uuids,                  \* number of uuid4 values drawn so far
    fs_files,               \* working tree: path -> content, for existing files
    fs_dirs,                \* directories that exist
    git_index,              \* path -> staged content
    git_head,               \* path -> committed content
    ret,                    \* the last call: what it was given and what it gave back
    stored,                 \* history: id -> record, for ids a store returned and
                            \*   on which remove has not been called since
    last_set,               \* history: chat id -> Some(id of the last set) / None
    issued,                 \* history: the change ids drawn so far
    fs_xbits,               \* <<path, who>>: who may execute the file at path
    git_xbits,              \* paths staged as executable in the index
    flow                    \* approval flows in progress

vars == <<pending_changes, commit_prompt_enabled, change_files, id_files, uuids,
          fs_files, fs_dirs, git_index, git_head, ret, stored, last_set, issued,
          fs_xbits, git_xbits, flow>>

store_vars == <<pending_changes, change_files>>
fs_vars == <<fs_files, fs_dirs>>
git_vars == <<git_index, git_head>>
perm_vars == <<fs_xbits, git_xbits>>

----------------------------------------------------------------------------
(* Strings *)

Hex == <<"0", "1", "2", "3", "4", "5", "6", "7",
         "8", "9", "a", "b", "c", "d", "e", "f">>

\* str(uuid.uuid4()): hexadecimal text; the n-th draw differs from all before.
Uuid(n) == <<Hex[((n \div 16) % 16) + 1], Hex[(n % 16) + 1]>>

Whitespace == {" ", "\t", "\n", "\r"}

RECURSIVE LStrip(_)
LStrip(s) == IF s # <<>> /\ Head(s) \in Whitespace THEN LStrip(Tail(s)) ELSE s

RECURSIVE RStrip(_)
RStrip(s) ==
    IF s # <<>> /\ s[Len(s)] \in Whitespace
    THEN RStrip(SubSeq(s, 1, Len(s) - 1))
    ELSE s

\* str.strip()
Strip(s) == RStrip(LStrip(s))

----------------------------------------------------------------------------
(* json.dump / json.load of a change_info dict *)

KeyOrder == <<"type", "file_path", "content", "description", "chat_id",
              "line_endings">>

\* json.dump(change_info, f, indent=2): the members in insertion order.
JsonDump(info) ==
    LET keys == SelectSeq(KeyOrder, LAMBDA k : k \in DOMAIN info)
    IN  [i \in 1..Len(keys) |-> <<keys[i], info[keys[i]]>>]

\* json.load(f): the object with the members of the text.
JsonLoad(text) ==
    LET ks == {text[i][1] : i \in 1..Len(text)}
    IN  [k \in ks |-> text[CHOOSE i \in 1..Len(text) : text[i][1] = k][2]]

----------------------------------------------------------------------------
(* Dicts and directories as functions *)

EmptyMap == [x \in {} |-> x]
Put(f, k, v) == [x \in (DOMAIN f) \cup {k} |-> IF x = k THEN v ELSE f[x]]
Del(f, k) == [x \in (DOMAIN f) \ {k} |-> f[x]]

\* The record of a call.  id: the change id given or returned; out: an optional
\* change id returned; change: an optional change_info returned; error: the
\* exception raised ("" for none); found: whether remove/clear met something;
\* path and content: the file and text given to a write; wrote, committed and
\* msg: what the write did and said; mode: the mode given to chmod.
NoRet ==
    [op |-> "none", proc |-> "", chat |-> "", id |-> <<>>, path |-> "",
     out |-> None, change |-> None, error |-> "", found |-> FALSE,
     content |-> <<>>, preview |-> FALSE, wrote |-> FALSE,
     committed |-> FALSE, msg |-> "", mode |-> ""]

Called(op, p) == [NoRet EXCEPT !.op = op, !.proc = p]

----------------------------------------------------------------------------
(* approval_state.py: the pending-change store *)

\* get_pending_change that looks in the cache only
get_pending_change_cache_only(p, change_id) ==
    IF change_id \in DOMAIN pending_changes[p]
    THEN Some(pending_changes[p][change_id])
    ELSE None

\* The disk half of get_pending_change: the record file of change_id, loaded,
\* or None when there is no such file.
load_from_disk(change_id) ==
    IF change_id \notin DOMAIN change_files
    THEN None
    ELSE Some(JsonLoad(change_files[change_id]))

\* get_pending_change(change_id), run in process p
get_pending_change(p, change_id) ==
    IF change_id \in DOMAIN pending_changes[p]
    THEN Some(pending_changes[p][change_id])
    ELSE load_from_disk(change_id)

\* a change id made from the number of pending record files
NewChangeId_from_count == Uuid(Cardinality(DOMAIN change_files))

\* change_id = str(uuid.uuid4()): a value not drawn before
NewChangeId == Uuid(uuids)

\* store_pending_change that writes the cache and no record file
StoreEffect_cache_only(p, change_id, change_info, disk_ok) ==
    /\ pending_changes' =
         [pending_changes EXCEPT ![p] = Put(@, change_id, change_info)]
    /\ change_files' = change_files
    /\ stored' = stored
    /\ issued' = issued \cup {change_id}

\* The new contents of the cache of p and of the directory after
\* store_pending_change / the storing lines of write_file_content: the cache is
\* written first, the file after it; disk_ok = FALSE is open() raising OSError.
StoreEffect(p, change_id, change_info, disk_ok) ==
    /\ pending_changes' =
         [pending_changes EXCEPT ![p] = Put(@, change_id, change_info)]
    /\ change_files' =
         IF disk_ok
         THEN Put(change_files, change_id, JsonDump(change_info))
         ELSE change_files
    /\ stored' = IF disk_ok THEN Put(stored, change_id, change_info) ELSE stored
    /\ issued' = issued \cup {change_id}

\* store_pending_change(change_info)
StorePendingChange(p, change_info, disk_ok) ==
    /\ uuids < MaxIds
    /\ LET change_id == NewChangeId
       IN  /\ StoreEffect(p, change_id, change_info, disk_ok)
           /\ ret' = [Called("store", p) EXCEPT
                        !.id = change_id,
                        !.error = IF disk_ok THEN "" ELSE "OSError"]
    /\ uuids' = uuids + 1
    /\ UNCHANGED <<commit_prompt_enabled, id_files, fs_vars, git_vars,
                   last_set, flow, perm_vars>>

\* a call of get_pending_change(change_id)
GetPendingChange(p, change_id) ==
    /\ ret' = [Called("get", p) EXCEPT
                 !.id = change_id,
                 !.change = get_pending_change(p, change_id)]
    /\ UNCHANGED <<pending_changes, commit_prompt_enabled, change_files,
                   id_files, uuids, fs_vars, git_vars, stored, last_set, flow,
                   issued, perm_vars>>

\* remove_pending_change that forgets the record file
RemoveEffect_cache_only(p, change_id) ==
    /\ pending_changes' =
         [pending_changes EXCEPT
            ![p] = IF change_id \in DOMAIN @ THEN Del(@, change_id) ELSE @]
    /\ change_files' = change_files

\* The cache of p and the directory after remove_pending_change(change_id).
RemoveEffect(p, change_id) ==
    /\ pending_changes' =
         [pending_changes EXCEPT
            ![p] = IF change_id \in DOMAIN @ THEN Del(@, change_id) ELSE @]
    /\ change_files' =
         IF change_id \in DOMAIN change_files
         THEN Del(change_files, change_id)
         ELSE change_files

\* remove_pending_change(change_id)
RemovePendingChange(p, change_id) ==
    /\ RemoveEffect(p, change_id)
    /\ stored' = Del(stored, change_id)
    /\ ret' = [Called("remove", p) EXCEPT
                 !.id = change_id,
                 !.found = \/ change_id \in DOMAIN pending_changes[p]
                           \/ change_id \in DOMAIN change_files]
    /\ UNCHANGED <<commit_prompt_enabled, id_files, uuids, fs_vars, git_vars,
                   last_set, flow, issued, perm_vars>>

\* A process exits and a new one imports approval_state: pending_changes = {}
\* and commit_prompt_enabled = True again; the directory stays.
Restart(p) ==
    /\ pending_changes' = [pending_changes EXCEPT ![p] = EmptyMap]
    /\ commit_prompt_enabled' = [commit_prompt_enabled EXCEPT ![p] = TRUE]
    /\ ret' = Called("restart", p)
    /\ UNCHANGED <<change_files, id_files, uuids, fs_vars, git_vars, stored,
                   last_set, flow, issued, perm_vars>>

----------------------------------------------------------------------------
(* approval_state.py: the session pointer files *)

\* one pointer file for every chat
IdFile_shared(chat_id) == <<"current_", "", ".txt">>

\* PENDING_CHANGES_DIR / f"current_{chat_id}.txt"
IdFile(chat_id) == <<"current_", chat_id, ".txt">>

\* get_current_change_id(chat_id)
get_current_change_id(chat_id) ==
    IF IdFile(chat_id) \notin DOMAIN id_files
    THEN None
    ELSE Some(Strip(id_files[IdFile(chat_id)]))

\* a call of get_current_change_id(chat_id)
GetCurrentChangeId(p, chat_id) ==
    /\ ret' = [Called("get_current", p) EXCEPT
                 !.chat = chat_id,
                 !.out = get_current_change_id(chat_id)]
    /\ UNCHANGED <<pending_changes, commit_prompt_enabled, change_files,
                   id_files, uuids, fs_vars, git_vars, stored, last_set, flow,
                   issued, perm_vars>>

\* the pointer file opened with "a" instead of "w"
WriteIdFile_append(chat_id, change_id) ==
    Put(id_files, IdFile(chat_id),
        (IF IdFile(chat_id) \in DOMAIN id_files
         THEN id_files[IdFile(chat_id)]
         ELSE <<>>) \o change_id)

\* open(id_file, "w") and f.write(change_id): the directory afterwards
WriteIdFile(chat_id, change_id) == Put(id_files, IdFile(chat_id), change_id)

\* set_current_change_id(chat_id, change_id)
SetCurrentChangeId(p, chat_id, change_id) ==
    /\ id_files' = WriteIdFile(chat_id, change_id)
    /\ last_set' = [last_set EXCEPT ![chat_id] = Some(change_id)]
    /\ ret' = [Called("set_current", p) EXCEPT !.chat = chat_id, !.id = change_id]
    /\ UNCHANGED <<pending_changes, commit_prompt_enabled, change_files, uuids,
                   fs_vars, git_vars, stored, flow, issued, perm_vars>>

\* clear_current_change_id(chat_id)
ClearCurrentChangeId(p, chat_id) ==
    /\ id_files' =
         IF IdFile(chat_id) \in DOMAIN id_files
         THEN Del(id_files, IdFile(chat_id))
         ELSE id_files
    /\ last_set' = [last_set EXCEPT ![chat_id] = None]
    /\ ret' = [Called("clear_current", p) EXCEPT
                 !.chat = chat_id,
                 !.found = IdFile(chat_id) \in DOMAIN id_files]
    /\ UNCHANGED <<pending_changes, commit_prompt_enabled, change_files, uuids,
                   fs_vars, git_vars, stored, flow, issued, perm_vars>>

----------------------------------------------------------------------------
(* approval_state.py: the commit-prompt flag *)

\* is_commit_prompt_enabled(), run in process p
is_commit_prompt_enabled(p) == commit_prompt_enabled[p]

\* set_commit_prompt without its `global` statement: the assignment binds a
\* local name and the flag stays as it was
SetCommitPrompt_local(p, enabled) ==
    /\ ret' = [Called("set_commit_prompt", p) EXCEPT
                 !.msg = IF enabled THEN "Commit prompting enabled"
                                    ELSE "Commit prompting disabled"]
    /\ UNCHANGED <<pending_changes, commit_prompt_enabled, change_files,
                   id_files, uuids, fs_vars, git_vars, stored, last_set, flow,
                   issued, perm_vars>>

\* set_commit_prompt(enabled)
SetCommitPrompt(p, enabled) ==
    /\ commit_prompt_enabled' = [commit_prompt_enabled EXCEPT ![p] = enabled]
    /\ ret' = [Called("set_commit_prompt", p) EXCEPT
                 !.msg = IF enabled THEN "Commit prompting enabled"
                                    ELSE "Commit prompting disabled"]
    /\ UNCHANGED <<pending_changes, change_files, id_files, uuids, fs_vars,
                   git_vars, stored, last_set, flow, issued, perm_vars>>

----------------------------------------------------------------------------
(* The working tree, the repository and the helpers write_file.py imports *)

TrackedPath == "/repo/a.txt"
UntrackedPath == "/repo/u.txt"
NewPath == "/repo/new/n.txt"
EmptyPath == ""

\* os.path.dirname
Dirname(path) ==
    CASE path = TrackedPath -> "/repo"
      [] path = UntrackedPath -> "/repo"
      [] path = NewPath -> "/repo/new"
      [] OTHER -> ""

\* File contents: text with LF and with CRLF line ends.
ContentLF == <<"h", "\n">>
ContentCRLF == <<"w", "\r", "\n">>

\* file_utils.check_file_path_and_permissions: the path is given and allowed.
check_file_path_and_permissions(file_path) == file_path # EmptyPath

\* file_utils.check_git_tracking_for_existing_file: a file that exists must be
\* tracked; a file that does not exist passes.
check_git_tracking_for_existing_file(file_path) ==
    file_path \in DOMAIN fs_files => file_path \in DOMAIN git_index

RECURSIVE HasCRLF(_)
HasCRLF(s) ==
    /\ Len(s) >= 2
    /\ \/ (s[1] = "\r" /\ s[2] = "\n")
       \/ HasCRLF(Tail(s))

\* line_endings.detect_line_endings: the line ends of an existing file.
detect_line_endings(text) == IF HasCRLF(text) THEN "CRLF" ELSE "LF"

RECURSIVE ToLF(_)
ToLF(s) ==
    IF s = <<>> THEN <<>>
    ELSE IF Len(s) >= 2 /\ s[1] = "\r" /\ s[2] = "\n"
         THEN <<"\n">> \o ToLF(SubSeq(s, 3, Len(s)))
         ELSE <<s[1]>> \o ToLF(Tail(s))

RECURSIVE ToCRLF(_)
ToCRLF(s) ==
    IF s = <<>> THEN <<>>
    ELSE IF s[1] = "\n"
         THEN <<"\r", "\n">> \o ToCRLF(Tail(s))
         ELSE <<s[1]>> \o ToCRLF(Tail(s))

\* file_utils.write_text_content: the text written for content under the given
\* line-ending convention.
write_text_content(content, line_endings) ==
    IF line_endings = "CRLF" THEN ToCRLF(ToLF(content)) ELSE ToLF(content)

\* git.commit_changes(file_path, description, chat_id) succeeding: the file is
\* staged and committed.
commit_changes(file_path) ==
    /\ git_index' = Put(git_index, file_path, fs_files'[file_path])
    /\ git_head' = Put(git_head, file_path, fs_files'[file_path])

----------------------------------------------------------------------------
(* write_file.py *)

\* change_info of write_file_content
ChangeInfo(file_path, content, description, chat_id, line_endings) ==
    [type |-> "write", file_path |-> file_path, content |-> content,
     description |-> description, chat_id |-> chat_id,
     line_endings |-> line_endings]

\* raise ValueError(...) out of the two checks: nothing has been touched.
RaiseValueError(call, message) ==
    /\ ret' = [call EXCEPT !.error = "ValueError", !.msg = message]
    /\ UNCHANGED <<pending_changes, commit_prompt_enabled, change_files,
                   id_files, uuids, fs_vars, git_vars, stored, last_set, flow,
                   issued, perm_vars>>

\* The preview branch: the diff, a fresh change id, the record into the cache
\* and into the directory, the message naming the id.
ProposeBranch(call, p, change_info, disk_ok) ==
    /\ uuids < MaxIds
    /\ LET change_id == NewChangeId
       IN  /\ StoreEffect(p, change_id, change_info, disk_ok)
           /\ ret' = [call EXCEPT
                        !.id = change_id,
                        !.error = IF disk_ok THEN "" ELSE "OSError",
                        !.msg = IF disk_ok THEN "Proposed changes" ELSE ""]
    /\ uuids' = uuids + 1
    /\ UNCHANGED <<commit_prompt_enabled, id_files, fs_files, git_vars,
                   last_set, flow, perm_vars>>

\* the applying branch putting the old file back when commit_changes fails
WriteBranch_rollback(call, file_path, content, line_endings, git_ok) ==
    /\ fs_files' = IF git_ok
                   THEN Put(fs_files, file_path,
                            write_text_content(content, line_endings))
                   ELSE fs_files
    /\ IF git_ok THEN commit_changes(file_path) ELSE UNCHANGED git_vars
    /\ ret' = [call EXCEPT
                 !.wrote = TRUE,
                 !.committed = git_ok,
                 !.msg = IF git_ok
                         THEN "Successfully wrote; Changes committed to git"
                         ELSE "Successfully wrote; Failed to commit changes to git"]
    /\ UNCHANGED <<pending_changes, commit_prompt_enabled, change_files,
                   id_files, uuids, stored, last_set, flow, issued,
                   perm_vars>>

\* The applying branch: the file is written, then commit_changes is called and
\* its outcome reported in the message.
WriteBranch(call, file_path, content, line_endings, git_ok) ==
    /\ fs_files' = Put(fs_files, file_path,
                       write_text_content(content, line_endings))
    /\ IF git_ok THEN commit_changes(file_path) ELSE UNCHANGED git_vars
    /\ ret' = [call EXCEPT
                 !.wrote = TRUE,
                 !.committed = git_ok,
                 !.msg = IF git_ok
                         THEN "Successfully wrote; Changes committed to git"
                         ELSE "Successfully wrote; Failed to commit changes to git"]
    /\ UNCHANGED <<pending_changes, commit_prompt_enabled, change_files,
                   id_files, uuids, stored, last_set, flow, issued,
                   perm_vars>>

\* write_file_content after its two checks: the line endings, the directory of
\* a new file, then one of the two branches.  env is what the surroundings
\* answer during the call: env.repo_le is the result of
\* detect_repo_line_endings, env.disk_ok whether the record file can be
\* written, env.git_ok whether commit_changes succeeds.
WriteFileContentChecked(call, p, file_path, content, description, chat_id, preview, env) ==
    LET old_file_exists == file_path \in DOMAIN fs_files
        line_endings ==
            IF old_file_exists
            THEN detect_line_endings(fs_files[file_path])
            ELSE env.repo_le
    IN  /\ fs_dirs' = IF old_file_exists
                      THEN fs_dirs
                      ELSE fs_dirs \cup {Dirname(file_path)}
        /\ IF preview
           THEN ProposeBranch(call, p,
                    ChangeInfo(file_path, content, description, chat_id,
                               line_endings),
                    env.disk_ok)
           ELSE WriteBranch(call, file_path, content, line_endings,
                            env.git_ok)

\* write_file_content without its git tracking check
WriteFileContentBody_untracked_ok(call, p, file_path, content, description, chat_id, preview, env) ==
    IF ~check_file_path_and_permissions(file_path)
    THEN RaiseValueError(call, "invalid path")
    ELSE WriteFileContentChecked(call, p, file_path, content, description,
                                 chat_id, preview, env)

\* The body of write_file_content, recorded as the call `call`.
WriteFileContentBody(call, p, file_path, content, description, chat_id, preview, env) ==
    IF ~check_file_path_and_permissions(file_path)
    THEN RaiseValueError(call, "invalid path")
    ELSE IF ~check_git_tracking_for_existing_file(file_path)
    THEN RaiseValueError(call, "not tracked")
    ELSE WriteFileContentChecked(call, p, file_path, content, description,
                                 chat_id, preview, env)

\* write_file_content(file_path, content, description, chat_id, preview)
WriteFileContent(p, file_path, content, description, chat_id, preview, env) ==
    WriteFileContentBody(
        [Called(IF preview THEN "propose" ELSE "write", p) EXCEPT
            !.path = file_path, !.content = content, !.chat = chat_id,
            !.preview = preview],
        p, file_path, content, description, chat_id, preview, env)

\* Whether the name session_state is bound in write_file.py: the module binds
\* only what lines 3-23 import and define.
SessionStateBound == FALSE

\* apply_write(file_path, content, description, chat_id)
ApplyWrite(p, file_path, content, description, chat_id, env) ==
    LET call == [Called("apply_write", p) EXCEPT
                    !.path = file_path, !.content = content,
                    !.chat = chat_id]
    IN  IF ~SessionStateBound
        THEN /\ ret' = [call EXCEPT !.error = "NameError"]
             /\ UNCHANGED <<pending_changes, commit_prompt_enabled,
                            change_files, id_files, uuids, fs_vars, git_vars,
                            stored, last_set, flow, issued, perm_vars>>
        ELSE WriteFileContentBody([call EXCEPT !.preview = TRUE],
                 p, file_path, content, description, chat_id, TRUE, env)

----------------------------------------------------------------------------
(* chmod.py *)

\* The three classes a permission bit belongs to: user, group, other.
Who == {"u", "g", "o"}

\* The modes a caller may hand in: the two supported ones and another one.
ChmodModes == {"a+x", "a-x", "u+x"}

\* is_executable = bool(current_mode & stat.S_IXUSR)
is_executable(path) == <<path, "u">> \in fs_xbits

\* an early-return test that never holds
AlreadyInMode_never(path, mode) == FALSE

\* mode == "a+x" and is_executable, or mode == "a-x" and not is_executable
AlreadyInMode(path, mode) ==
    \/ mode = "a+x" /\ is_executable(path)
    \/ mode = "a-x" /\ ~is_executable(path)

\* The command chmod a+x / chmod a-x on the file: the executable bit of all
\* three classes is set / cleared.
RunChmod(mode, path) ==
    fs_xbits' = IF mode = "a+x"
                THEN fs_xbits \cup ({path} \X Who)
                ELSE fs_xbits \ ({path} \X Who)

\* git add of the file: its content and its executable bit, which git takes
\* from the user bit, go into the index.
GitAdd(path) ==
    /\ git_index' = Put(git_index, path, fs_files[path])
    /\ git_xbits' = IF <<path, "u">> \in fs_xbits'
                    THEN git_xbits \cup {path}
                    ELSE git_xbits \ {path}

\* chmod leaving by an exception or by an early return: only the outcome of
\* the call is new.
ChmodLeaves(call) ==
    /\ ret' = call
    /\ UNCHANGED <<pending_changes, commit_prompt_enabled, change_files,
                   id_files, uuids, fs_vars, git_vars, stored, last_set, flow,
                   issued, perm_vars>>

\* The two commands and the message.  env.cmd_ok and env.add_ok tell whether
\* chmod and git add exit with status 0; run_command(check=True) raises
\* CalledProcessError otherwise.
ChmodRuns(call, path, mode, env) ==
    IF ~env.cmd_ok
    THEN ChmodLeaves([call EXCEPT !.error = "CalledProcessError"])
    ELSE /\ RunChmod(mode, path)
         /\ IF env.add_ok
            THEN /\ GitAdd(path)
                 /\ ret' = [call EXCEPT !.msg =
                      IF mode = "a+x"
                      THEN "Made file executable. Changes staged. Use CommitChanges tool to commit."
                      ELSE "Removed executable permission from file. Changes staged. Use CommitChanges tool to commit."]
            ELSE /\ UNCHANGED <<git_index, git_xbits>>
                 /\ ret' = [call EXCEPT !.error = "CalledProcessError"]
         /\ UNCHANGED <<pending_changes, commit_prompt_enabled, change_files,
                        id_files, uuids, fs_vars, git_head, stored, last_set,
                        flow, issued>>

\* chmod(path, mode, chat_id); path is absolute
Chmod(p, path, mode, env) ==
    LET call == [Called("chmod", p) EXCEPT !.path = path, !.mode = mode]
    IN  IF path = ""
        THEN ChmodLeaves([call EXCEPT !.error = "ValueError",
                                      !.msg = "File path must be provided"])
        ELSE IF path \notin DOMAIN fs_files
        THEN ChmodLeaves([call EXCEPT !.error = "FileNotFoundError",
                                      !.msg = "The file does not exist"])
        ELSE IF mode \notin {"a+x", "a-x"}
        THEN ChmodLeaves([call EXCEPT !.error = "ValueError",
                                      !.msg = "Unsupported chmod mode"])
        ELSE IF AlreadyInMode(path, mode)
        THEN ChmodLeaves([call EXCEPT !.msg =
                 IF mode = "a+x"
                 THEN "File is already executable"
                 ELSE "File is already non-executable"])
        ELSE ChmodRuns(call, path, mode, env)

----------------------------------------------------------------------------
(* The approve / reject flow around the store: look the record up, apply or   *)
(* discard it, remove it.  An await separates the steps.                      *)

Flows == {"f1", "f2"}

IdleFlow == [pc |-> "idle", proc |-> "", kind |-> "", id |-> <<>>, change |-> None]

\* step 2 of approve / reject: load the record, or report "change not found"
FlowGet(f, p, kind, change_id) ==
    /\ flow[f].pc \in {"idle", "done", "not_found"}
    /\ LET got == get_pending_change(p, change_id)
       IN  flow' = [flow EXCEPT ![f] =
                      [pc |-> IF got = None THEN "not_found" ELSE "got",
                       proc |-> p, kind |-> kind, id |-> change_id,
                       change |-> got]]
    /\ ret' = [Called("flow_get", p) EXCEPT !.id = change_id]
    /\ UNCHANGED <<pending_changes, commit_prompt_enabled, change_files,
                   id_files, uuids, fs_vars, git_vars, stored, last_set,
                   issued, perm_vars>>

\* steps 3 and 4 of approve: write the payload and stage it; reject: nothing
FlowApply(f) ==
    /\ flow[f].pc = "got"
    /\ LET change == flow[f].change[1]
       IN  IF flow[f].kind = "approve"
           THEN /\ fs_files' = Put(fs_files, change.file_path,
                       write_text_content(change.content, change.line_endings))
                /\ fs_dirs' = fs_dirs \cup {Dirname(change.file_path)}
                /\ git_index' = Put(git_index, change.file_path,
                                    fs_files'[change.file_path])
                /\ UNCHANGED git_head
           ELSE UNCHANGED <<fs_vars, git_vars>>
    /\ flow' = [flow EXCEPT ![f].pc = "applied"]
    /\ ret' = [Called("flow_apply", flow[f].proc) EXCEPT !.id = flow[f].id]
    /\ UNCHANGED <<pending_changes, commit_prompt_enabled, change_files,
                   id_files, uuids, stored, last_set, issued, perm_vars>>

\* step 5: remove the record
FlowRemove(f) ==
    /\ flow[f].pc = "applied"
    /\ RemoveEffect(flow[f].proc, flow[f].id)
    /\ stored' = Del(stored, flow[f].id)
    /\ flow' = [flow EXCEPT ![f].pc = "done"]
    /\ ret' = [Called("flow_remove", flow[f].proc) EXCEPT !.id = flow[f].id]
    /\ UNCHANGED <<commit_prompt_enabled, id_files, uuids, fs_vars, git_vars,
                   last_set, issued, perm_vars>>

----------------------------------------------------------------------------
(* Initial state and specifications *)

\* Everything but the permissions.
InitState ==
    /\ pending_changes = [p \in Procs |-> EmptyMap]
    /\ commit_prompt_enabled = [p \in Procs |-> TRUE]
    /\ change_files = EmptyMap
    /\ id_files = EmptyMap
    /\ uuids = 0
    /\ fs_files = (TrackedPath :> ContentLF) @@ (UntrackedPath :> ContentLF)
    /\ fs_dirs = {"/repo"}
    /\ git_index = (TrackedPath :> ContentLF)
    /\ git_head = (TrackedPath :> ContentLF)
    /\ ret = NoRet
    /\ stored = EmptyMap
    /\ last_set = [s \in Sessions |-> None]
    /\ issued = {}
    /\ flow = [f \in Flows |-> IdleFlow]

\* No file is executable.
Init ==
    /\ InitState
    /\ fs_xbits = {}
    /\ git_xbits = {}

\* Every change id a run can draw, and one that is never drawn.
ChangeIds == {Uuid(n) : n \in 0..MaxIds}

Envs == [repo_le : {"LF", "CRLF"}, disk_ok : BOOLEAN, git_ok : BOOLEAN]
GoodEnv == [repo_le |-> "LF", disk_ok |-> TRUE, git_ok |-> TRUE]

\* Records handed to store_pending_change directly.
ChangeInfos ==
    {ChangeInfo(TrackedPath, ContentCRLF, "d", "sA", "LF"),
     ChangeInfo(NewPath, ContentLF, "d", "sB", "CRLF")}

\* The store, in two processes sharing the directory.
NextStore ==
    \E p \in Procs :
        \/ \E info \in ChangeInfos, ok \in BOOLEAN : StorePendingChange(p, info, ok)
        \/ \E id \in ChangeIds : GetPendingChange(p, id)
        \/ \E id \in ChangeIds : RemovePendingChange(p, id)
        \/ WriteFileContent(p, TrackedPath, ContentLF, "d", "sB", TRUE, GoodEnv)
        \/ Restart(p)

SpecStore == Init /\ [][NextStore]_vars

\* The store in a single process whose disk reads and writes all succeed.
NextCache ==
    \/ \E info \in ChangeInfos : StorePendingChange("p1", info, TRUE)
    \/ \E id \in ChangeIds : GetPendingChange("p1", id)
    \/ \E id \in ChangeIds : RemovePendingChange("p1", id)
    \/ Restart("p1")

SpecCache == Init /\ [][NextCache]_vars

\* The session pointers, with proposals made beside them.
NextPointer ==
    \E p \in Procs, chat_id \in Sessions :
        \/ \E id \in ChangeIds : SetCurrentChangeId(p, chat_id, id)
        \/ ClearCurrentChangeId(p, chat_id)
        \/ GetCurrentChangeId(p, chat_id)
        \/ WriteFileContent(p, TrackedPath, ContentCRLF, "d", chat_id, TRUE, GoodEnv)
        \/ Restart(p)

SpecPointer == Init /\ [][NextPointer]_vars

WritePaths == {TrackedPath, UntrackedPath, NewPath, EmptyPath}
ValidPaths == {TrackedPath, NewPath}
Contents == {ContentLF, ContentCRLF}

\* The files of the working tree start with any permissions, and the index
\* with either mode for the tracked file.
InitChmod ==
    /\ InitState
    /\ fs_xbits \in SUBSET ({TrackedPath, UntrackedPath} \X Who)
    /\ git_xbits \in SUBSET {TrackedPath}

ChmodEnvs == [cmd_ok : BOOLEAN, add_ok : BOOLEAN]

\* chmod called with every kind of path and mode.
NextChmod ==
    \E path \in WritePaths, mode \in ChmodModes, env \in ChmodEnvs :
        Chmod("p1", path, mode, env)

SpecChmod == InitChmod /\ [][NextChmod]_vars

\* Proposals (write_file_content with preview=True) over every kind of path,
\* with the record file written or failing, and a plain write beside them.
NextPropose ==
    \E content \in Contents :
        \/ \E path \in WritePaths, disk_ok \in BOOLEAN :
               WriteFileContent("p1", path, content, "d", "sA", TRUE,
                   [repo_le |-> "CRLF", disk_ok |-> disk_ok, git_ok |-> TRUE])
        \/ \E path \in WritePaths, git_ok \in BOOLEAN :
               WriteFileContent("p1", path, content, "d", "sA", FALSE,
                   [repo_le |-> "CRLF", disk_ok |-> TRUE, git_ok |-> git_ok])

SpecPropose == Init /\ [][NextPropose]_vars

\* Applying a write: write_file_content with preview=False, apply_write and the
\* commit-prompt flag, with one record proposed beside them.
NextApply ==
    \/ \E path \in WritePaths, content \in Contents, env \in Envs :
           WriteFileContent("p1", path, content, "d", "sA", FALSE, env)
    \/ \E path \in ValidPaths, content \in Contents, env \in Envs :
           ApplyWrite("p1", path, content, "d", "sA", env)
    \/ \E enabled \in BOOLEAN : SetCommitPrompt("p1", enabled)
    \/ WriteFileContent("p1", TrackedPath, ContentCRLF, "d", "sA", TRUE, GoodEnv)

SpecApply == Init /\ [][NextApply]_vars

\* Two approve / reject flows in one process, over records stored before.
NextFlow ==
    \/ \E info \in ChangeInfos : StorePendingChange("p1", info, TRUE)
    \/ \E f \in Flows, kind \in {"approve", "reject"}, id \in ChangeIds :
           FlowGet(f, "p1", kind, id)
    \/ \E f \in Flows : FlowApply(f)
    \/ \E f \in Flows : FlowRemove(f)

SpecFlow == Init /\ [][NextFlow]_vars

\* approval_state.py as a whole, in one process.
Next ==
    \/ \E info \in ChangeInfos, ok \in BOOLEAN : StorePendingChange("p1", info, ok)
    \/ \E id \in ChangeIds : GetPendingChange("p1", id)
    \/ \E id \in ChangeIds : RemovePendingChange("p1", id)
    \/ \E chat_id \in Sessions, id \in ChangeIds : SetCurrentChangeId("p1", chat_id, id)
    \/ \E chat_id \in Sessions : ClearCurrentChangeId("p1", chat_id)
    \/ \E chat_id \in Sessions : GetCurrentChangeId("p1", chat_id)
    \/ \E enabled \in BOOLEAN : SetCommitPrompt("p1", enabled)
    \/ Restart("p1")

Spec == Init /\ [][Next]_vars

----------------------------------------------------------------------------
(* The claims *)

\* C4: a record that store_pending_change (or a proposal) returned an id for is
\* what get_pending_change answers for that id, in every process and in every
\* later state, emptied caches included, until remove_pending_change is called
\* for the id.
C4_StoredRecordIsRetrievable ==
    \A id \in DOMAIN stored : \A p \in Procs :
        get_pending_change(p, id) = Some(stored[id])

\* C4 happens: a get answered from the record file, the cache of the asking
\* process not holding the id.
C4_Witness ==
    /\ ret.op = "get"
    /\ ret.id \in DOMAIN stored
    /\ ret.id \notin DOMAIN pending_changes[ret.proc]
    /\ ret.change = Some(stored[ret.id])

\* C5: remove_pending_change(id) in process p raises nothing and leaves the id
\* in neither the cache of p nor the directory, so that get_pending_change(id)
\* in p answers None; when the id was in neither, both are left as they were.
C5_RemoveDeletesAndIsIdempotent ==
    [][\A p \in Procs, id \in ChangeIds :
          (ret'.op = "remove" /\ ret'.proc = p /\ ret'.id = id) =>
              /\ ret'.error = ""
              /\ id \notin DOMAIN pending_changes'[p]
              /\ id \notin DOMAIN change_files'
              /\ get_pending_change(p, id)' = None
              /\ (id \notin DOMAIN pending_changes[p] /\ id \notin DOMAIN change_files)
                     => /\ pending_changes' = pending_changes
                        /\ change_files' = change_files]_vars

\* C5 happens: a remove of an id that was drawn before and is in neither store
\* any more.
C5_Witness ==
    /\ ret.op = "remove"
    /\ ~ret.found
    /\ ret.id = Uuid(0)
    /\ uuids >= 1
    /\ change_files # EmptyMap

\* C7: a propose, set_current_change_id or clear_current_change_id for one chat
\* id leaves get_current_change_id of every other chat id as it was.
C7_OtherSessionsUntouched ==
    [][\A a \in Sessions :
          (ret'.op \in {"propose", "set_current", "clear_current"} /\ ret'.chat # a)
              => get_current_change_id(a)' = get_current_change_id(a)]_vars

\* C7 happens: a pointer was set for sB while sA had a different one.
C7_Witness ==
    /\ ret.op = "set_current"
    /\ ret.chat = "sB"
    /\ get_current_change_id("sA") # None
    /\ get_current_change_id("sA") # get_current_change_id("sB")

\* C8: get_current_change_id(s) is the id of the last set_current_change_id(s, .)
\* when no clear_current_change_id(s) came after it and None otherwise, restarts
\* of the processes included; a clear for a chat id without a pointer raises
\* nothing and changes no pointer file.
C8_PointerIsLastSet ==
    /\ [](\A s \in Sessions : get_current_change_id(s) = last_set[s])
    /\ [][\A s \in Sessions :
             (ret'.op = "clear_current" /\ ret'.chat = s
                 /\ get_current_change_id(s) = None)
               => (ret'.error = "" /\ id_files' = id_files)]_vars

\* C8 happens: after a restart one chat still has the pointer that replaced an
\* earlier one and the other has none.
C8_Witness ==
    /\ ret.op = "restart"
    /\ get_current_change_id("sA") = Some(Uuid(1))
    /\ get_current_change_id("sB") = None
    /\ last_set["sA"] = Some(Uuid(1))

\* C1: apply_write(file_path, content, description, chat_id) for a valid
\* proposal raises nothing, leaves the file holding the proposed content (up to
\* the line-ending conversion) and adds no record to the cache or the directory.
C1_ApplyWriteWritesTheFile ==
    [][ret'.op = "apply_write" =>
          /\ ret'.error = ""
          /\ ret'.path \in DOMAIN fs_files'
          /\ ToLF(fs_files'[ret'.path]) = ToLF(ret'.content)
          /\ pending_changes' = pending_changes
          /\ change_files' = change_files]_vars

\* C2: after a propose that succeeded for chat id s, get_current_change_id(s) is
\* the id of the record that propose stored.
C2_ProposeSetsCurrent ==
    (ret.op = "propose" /\ ret.error = "")
        => get_current_change_id(ret.chat) = Some(ret.id)

\* C3: a propose that returns a change id changes no file and creates no
\* directory of the working tree, and nothing of the repository.
C3_ProposeTouchesNoFile ==
    [][(ret'.op = "propose" /\ ret'.error = "") =>
          /\ fs_files' = fs_files
          /\ fs_dirs' = fs_dirs
          /\ git_index' = git_index
          /\ git_head' = git_head]_vars

\* C6: of two flows working on the same change id, at most one holds the record
\* at a time: the other has been told "not found".
C6_OnlyOneFlowObtains ==
    \A f \in Flows, g \in Flows :
        (f # g /\ flow[f].pc \in {"got", "applied"} /\ flow[f].id = flow[g].id)
            => flow[g].pc \notin {"got", "applied"}

\* C9: a propose whose path fails check_file_path_and_permissions, or whose
\* existing target is not tracked, raises an error and changes nothing: not the
\* caches, not the record files, not the pointer files, not the working tree.
C9_FailedProposeMutatesNothing ==
    [][(/\ ret'.op = "propose"
        /\ \/ ~check_file_path_and_permissions(ret'.path)
           \/ ~check_git_tracking_for_existing_file(ret'.path))
          => /\ ret'.error = "ValueError"
             /\ UNCHANGED <<pending_changes, commit_prompt_enabled,
                            change_files, id_files, uuids, fs_files, fs_dirs,
                            git_index, git_head>>]_vars

\* C9 happens: a propose for the untracked file was refused while a record was
\* pending.
C9_Witness ==
    /\ ret.op = "propose"
    /\ ret.path = UntrackedPath
    /\ ret.error = "ValueError"
    /\ ret.msg = "not tracked"
    /\ change_files # EmptyMap

\* C10: a write that is applied creates a commit only when the commit-prompt
\* flag is disabled at that time: with the flag enabled (as it is from the start)
\* no commit is made.
C10_CommitOnlyWhenPromptDisabled ==
    (ret.op = "write" /\ ret.wrote /\ ret.committed)
        => ~is_commit_prompt_enabled(ret.proc)

\* C11: when an applied write has written the file and commit_changes then
\* reports failure, nothing is raised, the file holds the newly written content
\* (up to the line-ending conversion) and the message reports the write and the
\* git failure side by side.
C11_GitFailureKeepsTheWrite ==
    (ret.op = "write" /\ ret.wrote /\ ~ret.committed) =>
        /\ ret.error = ""
        /\ ret.path \in DOMAIN fs_files
        /\ ToLF(fs_files[ret.path]) = ToLF(ret.content)
        /\ ret.msg = "Successfully wrote; Failed to commit changes to git"

\* C11 happens: the tracked file was overwritten with new text, the commit
\* failed, and the repository still has the old text.
C11_Witness ==
    /\ ret.op = "write"
    /\ ret.wrote
    /\ ~ret.committed
    /\ ret.path = TrackedPath
    /\ fs_files[TrackedPath] # git_head[TrackedPath]

\* C12: in a process, is_commit_prompt_enabled() is True from the start and after
\* set_commit_prompt(x) it is x; no store or pointer operation changes it, and
\* set_commit_prompt changes no cache, no record file and no pointer file.
C12_PromptFlagIsLastWrite ==
    /\ [](ret.op = "none" => \A p \in Procs : is_commit_prompt_enabled(p))
    /\ [](ret.op = "restart" => is_commit_prompt_enabled(ret.proc))
    /\ [][\A p \in Procs :
             /\ (ret'.op = "set_commit_prompt" /\ ret'.proc = p) =>
                   /\ is_commit_prompt_enabled(p)'
                          = (ret'.msg = "Commit prompting enabled")
                   /\ UNCHANGED <<pending_changes, change_files, id_files>>
             /\ ret'.op \in {"store", "get", "remove", "set_current",
                             "clear_current", "get_current"}
                   => is_commit_prompt_enabled(p)' = is_commit_prompt_enabled(p)
       ]_vars

\* C12 happens: the flag was disabled and a remove that met a record left it
\* disabled, with a pointer file present.
C12_Witness ==
    /\ ret.op = "remove"
    /\ ret.found
    /\ ~is_commit_prompt_enabled("p1")
    /\ id_files # EmptyMap

\* C13: the id a store_pending_change or a propose draws is none of the ids
\* drawn before, removed records and restarts included; so an id that has been
\* drawn and that get_pending_change answers None for in a process is answered
\* None there ever after.
C13_IdsAreFresh ==
    [][/\ (\/ ret'.op = "store"
           \/ (ret'.op = "propose" /\ ret'.error # "ValueError"))
          => ret'.id \notin issued
       /\ \A p \in Procs, id \in issued :
             get_pending_change(p, id) = None
                 => get_pending_change(p, id)' = None]_vars

\* C13 happens: a second id was drawn by a propose when the record of the
\* first was gone from every cache and from the directory.
C13_Witness ==
    /\ ret.op = "propose"
    /\ ret.id = Uuid(1)
    /\ Uuid(0) \in issued
    /\ \A p \in Procs : get_pending_change(p, Uuid(0)) = None
    /\ get_pending_change(ret.proc, Uuid(1)) # None

\* C15: in every state, every id in the cache of a process has a record
\* file in the directory.
C15_CacheHasDurableRecord ==
    \A p \in Procs : \A id \in DOMAIN pending_changes[p] :
        id \in DOMAIN change_files

\* C16: once remove_pending_change(id) has removed the record in one process,
\* get_pending_change(id) answers None in every process.
C16_RemovedIsAbsentEverywhere ==
    (ret.op = "remove" /\ ret.found) =>
        \A p \in Procs : get_pending_change(p, ret.id) = None

\* C17: in a single process with successful disk I/O, get_pending_change
\* answers for every id what it answers with the cache emptied, that is what
\* the record file alone gives; and a get changes neither the cache nor the
\* directory.
C17_CacheIsDisposable ==
    /\ [](\A id \in ChangeIds :
            get_pending_change("p1", id) = load_from_disk(id))
    /\ [](ret.op = "get" => ret.change = load_from_disk(ret.id))
    /\ [][ret'.op = "get" => UNCHANGED store_vars]_vars

\* C17 happens: a get is answered from the cache with a record, and another
\* record has been removed before.
C17_Witness ==
    /\ ret.op = "get"
    /\ ret.id = Uuid(1)
    /\ ret.id \in DOMAIN pending_changes["p1"]
    /\ ret.change # None
    /\ Uuid(0) \in issued
    /\ Uuid(0) \notin DOMAIN change_files

\* C14: after chmod(path, "a-x") returns without error no executable bit of
\* the file is set, and after chmod(path, "a+x") returns without error the
\* executable bit is set for user, group and other, whatever the permissions
\* were before.
C14_AllThreeBitsFollowTheMode ==
    (ret.op = "chmod" /\ ret.error = "") =>
        /\ ret.mode = "a-x" => \A w \in Who : <<ret.path, w>> \notin fs_xbits
        /\ ret.mode = "a+x" => \A w \in Who : <<ret.path, w>> \in fs_xbits

====
